---- MODULE Spec2Model ----
(***************************************************************************)
(* lazymc: the shared ServerState (src/src/server.rs), the process         *)
(* controller, the status hijack session (src/src/status.rs) and the       *)
(* dispatcher and interrupt watcher (src/src/main.rs), as interleaved      *)
(* tasks.  One step is one atomic load or store, one mutex-guarded access, *)
(* or task-local work between two such accesses.                           *)
(***************************************************************************)
EXTENDS Integers, Sequences, FiniteSets, TLC

\* ------------------------------------------------------------- bounds
NumSessions == 2
MaxTime == 2
MaxPlayers == 1
MaxMinOnlineTime == 1
SleepAfter == 1
MaxBytes == 2
MaxStream == 3

Sessions == 1..NumSessions
Killers == {"monitor", "watcher"}

\* Option<T>: None is the empty sequence, Some(x) a one-element sequence.
None == <<>>
Some(x) == <<x>>
IsSome(o) == o # None
Unwrap(o) == o[1]

\* The ServerStatus values a probe of the backend can return.
ServerVersions == {[name |-> "1.17.1", protocol |-> 756]}
ServerStatus == [version : ServerVersions, online : 0..MaxPlayers, max : {20}]

\* Config fields the lifecycle reads more than once (config.time).
Configs == [min_online_time : 0..MaxMinOnlineTime, sleep_after : {SleepAfter}]

VARIABLES
    online, starting, stopping,          \* ServerState atomics
    pid, status, last_active, keep_online_until,  \* ServerState mutexes
    config,                               \* the loaded Config
    now,                                  \* Instant::now()
    alive,                                \* FALSE after std::process::exit
    spc, cstate,                          \* per session: position, ClientState
    rx, tx, cloned,                       \* per session: last packet, what was written
                                          \* for it, the clone_status result in use
    cpc, child,                           \* per controller task: position, its child
    mpc, m_status, l_stopping, l_was_online, l_online,  \* monitor, update_status
    kpc, has_process, kret,               \* per kill_server caller
    wpc,                                  \* interrupt watcher
    raisedAt,                             \* history: see MinOnlineWindow
    ppc, copy, left, shut,                \* one proxy call: position, and per direction
                                          \* the copy, the bytes to come, the half-close
    rpc, rbuf, rstream, rres, rcause,     \* read_packet: position, buf, bytes the peer still
    rconsumed, rlen,                      \* sends, result, last read outcome, parsed length
    interrupts                            \* history: interrupts received, 2 for two or more

serverVars == <<online, starting, stopping, pid, status, last_active, keep_online_until>>
envVars == <<config, now, alive>>
sessVars == <<spc, cstate>>
ioVars == <<rx, tx, cloned>>
proxyVars == <<ppc, copy, left, shut>>
readVars == <<rpc, rbuf, rstream, rres, rcause, rconsumed, rlen>>
ctlVars == <<cpc, child>>
monVars == <<mpc, m_status, l_stopping, l_was_online, l_online>>
killVars == <<kpc, has_process, kret>>
coreVars == <<serverVars, envVars, sessVars, ctlVars, monVars, killVars, wpc, raisedAt, ioVars>>
vars == <<coreVars, proxyVars, readVars, interrupts>>

\* The two copy directions of a proxy call.
Directions == {"client_to_server", "server_to_client"}

\* stop_server_signal keeps the pid guard of its `if let` scrutinee until the
\* end of the block: the pid mutex is held across these positions.
PidLocked == \E k \in Killers : kpc[k] \in {"sig_online", "sig_keep"}

\* ------------------------------------------------------------- Init
Init ==
    /\ online = FALSE /\ starting = FALSE /\ stopping = FALSE
    /\ pid = None /\ status = None /\ last_active = None /\ keep_online_until = None
    /\ config \in Configs
    /\ now = 0
    /\ alive = TRUE
    /\ spc = [s \in Sessions |-> "new"]
    /\ cstate = [s \in Sessions |-> "Handshake"]
    /\ rx = [s \in Sessions |-> "none"]
    /\ tx = [s \in Sessions |-> None]
    /\ cloned = [s \in Sessions |-> None]
    /\ cpc = [s \in Sessions |-> "none"]
    /\ child = [s \in Sessions |-> "none"]
    /\ mpc = "idle" /\ m_status = None
    /\ l_stopping = FALSE /\ l_was_online = FALSE /\ l_online = FALSE
    /\ kpc = [k \in Killers |-> "idle"]
    /\ has_process = [k \in Killers |-> FALSE]
    /\ kret = [k \in Killers |-> FALSE]
    /\ wpc = "wait"
    /\ raisedAt = None
    /\ ppc = "connect"
    /\ copy = [d \in Directions |-> "idle"]
    /\ left = [d \in Directions |-> 0]
    /\ shut = [d \in Directions |-> FALSE]
    /\ rpc = "new" /\ rbuf = <<>> /\ rstream = <<>>
    /\ rres = "pending" /\ rcause = "none" /\ rconsumed = 0 /\ rlen = 0
    /\ interrupts = 0

\* raisedAt is history, no field of the program: the instant at which online
\* last went from false to true, kept while less than min_online_time has
\* passed since (at instant t), None otherwise.
MinOnlineWindow(at, t) ==
    IF IsSome(at) /\ t - Unwrap(at) < config.min_online_time THEN at ELSE None

\* Time passes.
Tick ==
    /\ alive /\ now < MaxTime
    /\ now' = now + 1
    /\ raisedAt' = MinOnlineWindow(raisedAt, now + 1)
    /\ UNCHANGED <<serverVars, config, alive, sessVars, ctlVars, monVars, killVars, wpc, ioVars,
                   proxyVars, readVars, interrupts>>


\* ------------------------------------------------------------- ServerState
\* set_keep_online_until(duration), called at instant t.
set_keep_online_until(duration, t) ==
    IF IsSome(duration) /\ Unwrap(duration) > 0
    THEN Some(t + Unwrap(duration))
    ELSE None

\* update_status: `online = status.is_some() && !stopping`.
ComputeOnline(st, stop) == IsSome(st) /\ ~stop

\* What a probe of the backend address can return: a status only while a
\* spawned backend runs, None at any time (not listening yet, timeout).
ProbeResults ==
    {None} \cup (IF \E c \in Sessions : child[c] = "running"
                 THEN {Some(s) : s \in ServerStatus}
                 ELSE {})

\* The monitor probes the backend and calls update_status with the result.
MonProbe ==
    /\ alive /\ mpc = "idle"
    /\ \E st \in ProbeResults : m_status' = st
    /\ mpc' = "u_stopping"
    /\ UNCHANGED <<serverVars, envVars, sessVars, ctlVars, l_stopping, l_was_online,
                   l_online, killVars, wpc, raisedAt, ioVars, proxyVars, readVars, interrupts>>

\* let stopping = self.stopping.load(..)
UpdLoadStopping ==
    /\ alive /\ mpc = "u_stopping"
    /\ l_stopping' = stopping
    /\ mpc' = "u_was_online"
    /\ UNCHANGED <<serverVars, envVars, sessVars, ctlVars, m_status, l_was_online,
                   l_online, killVars, wpc, raisedAt, ioVars, proxyVars, readVars, interrupts>>

\* let was_online = self.online()
UpdLoadOnline ==
    /\ alive /\ mpc = "u_was_online"
    /\ l_was_online' = online
    /\ mpc' = "u_set_online"
    /\ UNCHANGED <<serverVars, envVars, sessVars, ctlVars, m_status, l_stopping,
                   l_online, killVars, wpc, raisedAt, ioVars, proxyVars, readVars, interrupts>>

\* let online = ..; self.set_online(online); then the `!was_online && online` test
UpdSetOnline ==
    /\ alive /\ mpc = "u_set_online"
    /\ l_online' = ComputeOnline(m_status, l_stopping)
    /\ online' = l_online'
    /\ raisedAt' = IF ~online /\ online' THEN MinOnlineWindow(Some(now), now) ELSE raisedAt
    /\ mpc' = IF ~l_was_online /\ l_online' THEN "u_last_active" ELSE "u_players"
    /\ UNCHANGED <<starting, stopping, pid, status, last_active, keep_online_until,
                   envVars, sessVars, ctlVars, m_status, l_stopping, l_was_online,
                   killVars, wpc, ioVars, proxyVars, readVars, interrupts>>

\* self.update_last_active_time() of the just-came-online branch
UpdJustOnlineActive ==
    /\ alive /\ mpc = "u_last_active"
    /\ last_active' = Some(now)
    /\ mpc' = "u_keep_online"
    /\ UNCHANGED <<online, starting, stopping, pid, status, keep_online_until,
                   envVars, sessVars, ctlVars, m_status, l_stopping, l_was_online,
                   l_online, killVars, wpc, raisedAt, ioVars, proxyVars, readVars, interrupts>>

\* self.set_keep_online_until(Some(config.time.min_online_time))
UpdJustOnlineKeep ==
    /\ alive /\ mpc = "u_keep_online"
    /\ keep_online_until' = set_keep_online_until(Some(config.min_online_time), now)
    /\ mpc' = "u_players"
    /\ UNCHANGED <<online, starting, stopping, pid, status, last_active,
                   envVars, sessVars, ctlVars, m_status, l_stopping, l_was_online,
                   l_online, killVars, wpc, raisedAt, ioVars, proxyVars, readVars, interrupts>>

\* if let Some(status) = status { if status.players.online > 0 { update_last_active_time() } .. }
UpdPlayers ==
    /\ alive /\ mpc = "u_players"
    /\ IF IsSome(m_status)
       THEN /\ mpc' = "u_status"
            /\ last_active' = IF Unwrap(m_status).online > 0 THEN Some(now) ELSE last_active
            /\ UNCHANGED m_status
       ELSE /\ mpc' = "s_keep"
            /\ m_status' = None
            /\ UNCHANGED last_active
    /\ l_stopping' = FALSE /\ l_was_online' = FALSE /\ l_online' = FALSE
    /\ UNCHANGED <<online, starting, stopping, pid, status, keep_online_until,
                   envVars, sessVars, ctlVars, killVars, wpc, raisedAt, ioVars, proxyVars,
                   readVars, interrupts>>

\* The value update_status leaves in `status` for the probe result st.
NewStatus(st, old) == IF IsSome(st) THEN st ELSE old

\* self.set_status(status); update_status returns
UpdSetStatus ==
    /\ alive /\ mpc = "u_status"
    /\ status' = NewStatus(m_status, status)
    /\ m_status' = None
    /\ mpc' = "s_keep"
    /\ UNCHANGED <<online, starting, stopping, pid, last_active, keep_online_until,
                   envVars, sessVars, ctlVars, l_stopping, l_was_online, l_online,
                   killVars, wpc, raisedAt, ioVars, proxyVars, readVars, interrupts>>

\* ------------------------------------------------------------- should_sleep
\* keep_online_until.map(|i| i >= Instant::now()).unwrap_or(false)
KeepOnline == IsSome(keep_online_until) /\ Unwrap(keep_online_until) >= now

\* status.map(|status| status.players.online > 0).unwrap_or(false)
PlayersOnline == IsSome(status) /\ Unwrap(status).online > 0

\* last_idle.elapsed() >= sleep_after, false when last_active is None
IdleExpired == IsSome(last_active) /\ now - Unwrap(last_active) >= config.sleep_after

\* The `!self.online() || !self.starting()` early return, on loaded values.
NotReady(on, st) == ~on \/ ~st

\* What should_sleep returns when run against the current state.
should_sleep ==
    IF KeepOnline THEN FALSE
    ELSE IF NotReady(online, starting) THEN FALSE
    ELSE IF PlayersOnline THEN FALSE
    ELSE IdleExpired

SleepKeep ==
    /\ alive /\ mpc = "s_keep"
    /\ mpc' = IF KeepOnline THEN "idle" ELSE "s_online"
    /\ UNCHANGED <<serverVars, envVars, sessVars, ctlVars, m_status, l_stopping,
                   l_was_online, l_online, killVars, wpc, raisedAt, ioVars, proxyVars, readVars,
                   interrupts>>

\* `||` short-circuits: online is loaded first, starting only if online.
SleepOnline ==
    /\ alive /\ mpc = "s_online"
    /\ mpc' = IF NotReady(online, TRUE) THEN "idle" ELSE "s_starting"
    /\ UNCHANGED <<serverVars, envVars, sessVars, ctlVars, m_status, l_stopping,
                   l_was_online, l_online, killVars, wpc, raisedAt, ioVars, proxyVars, readVars,
                   interrupts>>

SleepStarting ==
    /\ alive /\ mpc = "s_starting"
    /\ mpc' = IF NotReady(TRUE, starting) THEN "idle" ELSE "s_players"
    /\ UNCHANGED <<serverVars, envVars, sessVars, ctlVars, m_status, l_stopping,
                   l_was_online, l_online, killVars, wpc, raisedAt, ioVars, proxyVars, readVars,
                   interrupts>>

SleepPlayers ==
    /\ alive /\ mpc = "s_players"
    /\ mpc' = IF PlayersOnline THEN "idle" ELSE "s_idle"
    /\ UNCHANGED <<serverVars, envVars, sessVars, ctlVars, m_status, l_stopping,
                   l_was_online, l_online, killVars, wpc, raisedAt, ioVars, proxyVars, readVars,
                   interrupts>>

\* should_sleep returns; on true the monitor calls kill_server.
SleepIdle ==
    /\ alive /\ mpc = "s_idle"
    /\ IF IdleExpired
       THEN /\ mpc' = "kill"
            /\ kpc' = [kpc EXCEPT !["monitor"] = "has"]
       ELSE /\ mpc' = "idle"
            /\ UNCHANGED kpc
    /\ UNCHANGED <<serverVars, envVars, sessVars, ctlVars, m_status, l_stopping,
                   l_was_online, l_online, has_process, kret, wpc, raisedAt, ioVars, proxyVars,
                   readVars, interrupts>>

\* kill_server returned to the monitor; the result is discarded.
MonKillReturn ==
    /\ alive /\ mpc = "kill" /\ kpc["monitor"] = "ret"
    /\ mpc' = "idle"
    /\ kpc' = [kpc EXCEPT !["monitor"] = "idle"]
    /\ has_process' = [has_process EXCEPT !["monitor"] = FALSE]
    /\ kret' = [kret EXCEPT !["monitor"] = FALSE]
    /\ UNCHANGED <<serverVars, envVars, sessVars, ctlVars, m_status, l_stopping,
                   l_was_online, l_online, wpc, raisedAt, ioVars, proxyVars, readVars, interrupts>>

\* ------------------------------------------------------------- kill_server
\* kill_server without its early return: a call that finds no pid goes on to
\* the stop strategies.
KillHasProcess_NoEarlyReturn(k) ==
    /\ alive /\ kpc[k] = "has" /\ ~PidLocked
    /\ has_process' = [has_process EXCEPT ![k] = IsSome(pid)]
    /\ kpc' = [kpc EXCEPT ![k] = "rcon"]
    /\ UNCHANGED <<serverVars, envVars, sessVars, ctlVars, monVars, kret, wpc, raisedAt, ioVars,
                   proxyVars, readVars, interrupts>>

\* let has_process = self.pid.lock().unwrap().is_some(); if !has_process { return false; }
KillHasProcess(k) ==
    /\ alive /\ kpc[k] = "has" /\ ~PidLocked
    /\ has_process' = [has_process EXCEPT ![k] = IsSome(pid)]
    /\ IF IsSome(pid)
       THEN /\ kpc' = [kpc EXCEPT ![k] = "rcon"]
            /\ UNCHANGED kret
       ELSE /\ kpc' = [kpc EXCEPT ![k] = "ret"]
            /\ kret' = [kret EXCEPT ![k] = FALSE]
    /\ UNCHANGED <<serverVars, envVars, sessVars, ctlVars, monVars, wpc, raisedAt, ioVars,
                   proxyVars, readVars, interrupts>>

\* stop_server_rcon up to its last command: with config.rcon.enabled false
\* (or the rcon feature compiled out) or on a connect failure it returns
\* false and kill_server goes on to the signal; a failure of save-all is
\* ignored, a failure of stop leaves the task at its error! line
\* (server.rs:285).  config.rcon.enabled is read nowhere else.
KillRcon(k) ==
    /\ alive /\ kpc[k] = "rcon"
    /\ \E rcon_enabled \in BOOLEAN, connected \in BOOLEAN, stop_ok \in BOOLEAN :
          kpc' = [kpc EXCEPT ![k] =
                     IF ~(rcon_enabled /\ connected) THEN "sig"
                     ELSE IF stop_ok THEN "rcon_online" ELSE "rcon_stop_failed"]
    /\ UNCHANGED <<serverVars, envVars, sessVars, ctlVars, monVars, has_process, kret,
                   wpc, raisedAt, ioVars, proxyVars, readVars, interrupts>>

\* stop_server_rcon: server.set_online(false)
RconSetOnline(k) ==
    /\ alive /\ kpc[k] \in {"rcon_online", "rcon_stop_failed"}
    /\ online' = FALSE
    /\ kpc' = [kpc EXCEPT ![k] = "rcon_keep"]
    /\ UNCHANGED <<starting, stopping, pid, status, last_active, keep_online_until,
                   envVars, sessVars, ctlVars, monVars, has_process, kret, wpc, raisedAt, ioVars,
                   proxyVars, readVars, interrupts>>

\* stop_server_rcon: server.set_keep_online_until(None); return true
RconClearKeep(k) ==
    /\ alive /\ kpc[k] = "rcon_keep"
    /\ keep_online_until' = set_keep_online_until(None, now)
    /\ kpc' = [kpc EXCEPT ![k] = "stopping"]
    /\ UNCHANGED <<online, starting, stopping, pid, status, last_active,
                   envVars, sessVars, ctlVars, monVars, has_process, kret, wpc, raisedAt, ioVars,
                   proxyVars, readVars, interrupts>>

\* stop_server_signal: if let Some(pid) = *server.pid.lock().unwrap() { kill_gracefully(pid) ..
KillSignal(k) ==
    /\ alive /\ kpc[k] = "sig" /\ ~PidLocked
    /\ IF IsSome(pid)
       THEN /\ kpc' = [kpc EXCEPT ![k] = "sig_online"]
            /\ UNCHANGED kret
       ELSE /\ kpc' = [kpc EXCEPT ![k] = "ret"]
            /\ kret' = [kret EXCEPT ![k] = FALSE]
    /\ UNCHANGED <<serverVars, envVars, sessVars, ctlVars, monVars, has_process, wpc, raisedAt,
                   ioVars, proxyVars, readVars, interrupts>>

\* stop_server_signal: server.set_online(false)
SigSetOnline(k) ==
    /\ alive /\ kpc[k] = "sig_online"
    /\ online' = FALSE
    /\ kpc' = [kpc EXCEPT ![k] = "sig_keep"]
    /\ UNCHANGED <<starting, stopping, pid, status, last_active, keep_online_until,
                   envVars, sessVars, ctlVars, monVars, has_process, kret, wpc, raisedAt, ioVars,
                   proxyVars, readVars, interrupts>>

\* stop_server_signal also clearing the pid inside its `if let` block:
\* set_pid(None) locks the pid mutex while the scrutinee's guard is held.
SigClearKeep_RelocksPid(k) ==
    /\ alive /\ kpc[k] = "sig_keep" /\ ~PidLocked
    /\ pid' = None
    /\ keep_online_until' = set_keep_online_until(None, now)
    /\ kpc' = [kpc EXCEPT ![k] = "stopping"]
    /\ UNCHANGED <<online, starting, stopping, status, last_active,
                   envVars, sessVars, ctlVars, monVars, has_process, kret, wpc, raisedAt, ioVars,
                   proxyVars, readVars, interrupts>>

\* stop_server_signal: server.set_keep_online_until(None); return true
SigClearKeep(k) ==
    /\ alive /\ kpc[k] = "sig_keep"
    /\ keep_online_until' = set_keep_online_until(None, now)
    /\ kpc' = [kpc EXCEPT ![k] = "stopping"]
    /\ UNCHANGED <<online, starting, stopping, pid, status, last_active,
                   envVars, sessVars, ctlVars, monVars, has_process, kret, wpc, raisedAt, ioVars,
                   proxyVars, readVars, interrupts>>

\* self.stopping.store(true, ..); return true
KillSetStopping(k) ==
    /\ alive /\ kpc[k] = "stopping"
    /\ stopping' = TRUE
    /\ kpc' = [kpc EXCEPT ![k] = "ret"]
    /\ kret' = [kret EXCEPT ![k] = TRUE]
    /\ UNCHANGED <<online, starting, pid, status, last_active, keep_online_until,
                   envVars, sessVars, ctlVars, monVars, has_process, wpc, raisedAt, ioVars,
                   proxyVars, readVars, interrupts>>

\* ------------------------------------------------------------- interrupt watcher
\* tokio::signal::ctrl_c().await, then kill_server is called
Interrupt ==
    /\ alive /\ wpc = "wait"
    /\ wpc' = "kill"
    /\ interrupts' = IF interrupts < 2 THEN interrupts + 1 ELSE interrupts
    /\ kpc' = [kpc EXCEPT !["watcher"] = "has"]
    /\ UNCHANGED <<serverVars, envVars, sessVars, ctlVars, monVars, has_process, kret, raisedAt,
                   ioVars, proxyVars, readVars>>

\* if !sub.kill_server() { std::process::exit(1) }, else wait for the next interrupt
WatcherReturn ==
    /\ alive /\ wpc = "kill" /\ kpc["watcher"] = "ret"
    /\ alive' = kret["watcher"]
    /\ wpc' = "wait"
    /\ kpc' = [kpc EXCEPT !["watcher"] = "idle"]
    /\ has_process' = [has_process EXCEPT !["watcher"] = FALSE]
    /\ kret' = [kret EXCEPT !["watcher"] = FALSE]
    /\ UNCHANGED <<serverVars, config, now, sessVars, ctlVars, monVars, raisedAt, ioVars,
                   proxyVars, readVars, interrupts>>

\* ------------------------------------------------------------- process controller
\* cmd.spawn()?: the child runs, or the task returns the error
CtlSpawn(c) ==
    /\ alive /\ cpc[c] = "spawn"
    /\ \E ok \in BOOLEAN :
          IF ok
          THEN /\ child' = [child EXCEPT ![c] = "running"]
               /\ cpc' = [cpc EXCEPT ![c] = "set_pid"]
          ELSE /\ cpc' = [cpc EXCEPT ![c] = "spawn_failed"]
               /\ UNCHANGED child
    /\ UNCHANGED <<serverVars, envVars, sessVars, monVars, killVars, wpc, raisedAt, ioVars,
                   proxyVars, readVars, interrupts>>

\* state.set_pid(Some(child.id()..)): controller c's child has pid c
CtlSetPid(c) ==
    /\ alive /\ cpc[c] = "set_pid" /\ ~PidLocked
    /\ pid' = Some(c)
    /\ cpc' = [cpc EXCEPT ![c] = "wait"]
    /\ UNCHANGED <<online, starting, stopping, status, last_active, keep_online_until,
                   envVars, sessVars, child, monVars, killVars, wpc, raisedAt, ioVars, proxyVars,
                   readVars, interrupts>>

\* The backend process exits (stopped, killed or crashed).
ChildExit(c) ==
    /\ alive /\ child[c] = "running"
    /\ child' = [child EXCEPT ![c] = "exited"]
    /\ UNCHANGED <<serverVars, envVars, sessVars, cpc, monVars, killVars, wpc, raisedAt, ioVars,
                   proxyVars, readVars, interrupts>>

\* child.wait().await returns the exit status: the child is reaped
CtlWaitOk(c) ==
    /\ alive /\ cpc[c] = "wait" /\ child[c] = "exited"
    /\ child' = [child EXCEPT ![c] = "reaped"]
    /\ cpc' = [cpc EXCEPT ![c] = "reset_pid"]
    /\ UNCHANGED <<serverVars, envVars, sessVars, monVars, killVars, wpc, raisedAt, ioVars,
                   proxyVars, readVars, interrupts>>

\* child.wait().await? returns an error: the task returns, the Child is
\* dropped and kill_on_drop kills the process
CtlWaitErr(c) ==
    /\ alive /\ cpc[c] = "wait" /\ child[c] \in {"running", "exited"}
    /\ child' = [child EXCEPT ![c] = "exited"]
    /\ cpc' = [cpc EXCEPT ![c] = "wait_failed"]
    /\ UNCHANGED <<serverVars, envVars, sessVars, monVars, killVars, wpc, raisedAt, ioVars,
                   proxyVars, readVars, interrupts>>

\* The runtime reaps a dropped, killed child in the background.
ReapOrphan(c) ==
    /\ alive /\ cpc[c] = "wait_failed" /\ child[c] = "exited"
    /\ child' = [child EXCEPT ![c] = "reaped"]
    /\ UNCHANGED <<serverVars, envVars, sessVars, cpc, monVars, killVars, wpc, raisedAt, ioVars,
                   proxyVars, readVars, interrupts>>

\* state.set_pid(None)
CtlResetPid(c) ==
    /\ alive /\ cpc[c] = "reset_pid" /\ ~PidLocked
    /\ pid' = None
    /\ cpc' = [cpc EXCEPT ![c] = "reset_online"]
    /\ UNCHANGED <<online, starting, stopping, status, last_active, keep_online_until,
                   envVars, sessVars, child, monVars, killVars, wpc, raisedAt, ioVars, proxyVars,
                   readVars, interrupts>>

\* The reset also forgetting the last known status when the server goes offline.
CtlResetOnline_ClearsStatus(c) ==
    /\ alive /\ cpc[c] = "reset_online"
    /\ online' = FALSE
    /\ status' = None
    /\ cpc' = [cpc EXCEPT ![c] = "reset_starting"]
    /\ UNCHANGED <<starting, stopping, pid, last_active, keep_online_until,
                   envVars, sessVars, child, monVars, killVars, wpc, raisedAt, ioVars, proxyVars,
                   readVars, interrupts>>

\* state.set_online(false)
CtlResetOnline(c) ==
    /\ alive /\ cpc[c] = "reset_online"
    /\ online' = FALSE
    /\ cpc' = [cpc EXCEPT ![c] = "reset_starting"]
    /\ UNCHANGED <<starting, stopping, pid, status, last_active, keep_online_until,
                   envVars, sessVars, child, monVars, killVars, wpc, raisedAt, ioVars, proxyVars,
                   readVars, interrupts>>

\* state.set_starting(false)
CtlResetStarting(c) ==
    /\ alive /\ cpc[c] = "reset_starting"
    /\ starting' = FALSE
    /\ cpc' = [cpc EXCEPT ![c] = "reset_stopping"]
    /\ UNCHANGED <<online, stopping, pid, status, last_active, keep_online_until,
                   envVars, sessVars, child, monVars, killVars, wpc, raisedAt, ioVars, proxyVars,
                   readVars, interrupts>>

\* state.stopping.store(false, ..); Ok(())
CtlResetStopping(c) ==
    /\ alive /\ cpc[c] = "reset_stopping"
    /\ stopping' = FALSE
    /\ cpc' = [cpc EXCEPT ![c] = "done"]
    /\ UNCHANGED <<online, starting, pid, status, last_active, keep_online_until,
                   envVars, sessVars, child, monVars, killVars, wpc, raisedAt, ioVars, proxyVars,
                   readVars, interrupts>>

\* ------------------------------------------------------------- dispatcher
\* listener.accept(), then `if !server_state.online()`: status server, else proxy
Accept(s) ==
    /\ alive /\ spc[s] = "new"
    /\ spc' = [spc EXCEPT ![s] = IF ~online THEN "read" ELSE "proxy"]
    /\ UNCHANGED <<serverVars, envVars, cstate, ctlVars, monVars, killVars, wpc, raisedAt, ioVars,
                   proxyVars, readVars, interrupts>>

\* The proxy handing the connection to the status handler when it finds the
\* server offline (the TODO at main.rs:273).
ProxyDone_Redirects(s) ==
    /\ alive /\ spc[s] = "proxy"
    /\ spc' = [spc EXCEPT ![s] = IF online THEN "closed" ELSE "read"]
    /\ UNCHANGED <<serverVars, envVars, cstate, ctlVars, monVars, killVars, wpc, raisedAt, ioVars,
                   proxyVars, readVars, interrupts>>

\* proxy(inbound, ..) runs to its end
ProxyDone(s) ==
    /\ alive /\ spc[s] = "proxy"
    /\ spc' = [spc EXCEPT ![s] = "closed"]
    /\ UNCHANGED <<serverVars, envVars, cstate, ctlVars, monVars, killVars, wpc, raisedAt, ioVars,
                   proxyVars, readVars, interrupts>>

\* ------------------------------------------------------------- proxy
\* One call of proxy in steps.  left[d] is the number of bytes the reading
\* side of direction d still delivers before its EOF; shut[d] says that the
\* write side direction d copies into has been half-closed.

\* TcpStream::connect(addr_target).await?, the splits, and try_join! starting
\* both copies
PxConnect ==
    /\ ppc = "connect"
    /\ \E ok \in BOOLEAN :
          IF ok
          THEN /\ ppc' = "join"
               /\ copy' = [d \in Directions |-> "copy"]
               /\ \E l \in [Directions -> 0..MaxBytes] : left' = l
          ELSE /\ ppc' = "returned_err"
               /\ UNCHANGED <<copy, left>>
    /\ UNCHANGED shut
    /\ UNCHANGED <<coreVars, readVars, interrupts>>

\* io::copy moves the next bytes of the direction
PxCopy(d) ==
    /\ ppc = "join" /\ copy[d] = "copy" /\ left[d] > 0
    /\ left' = [left EXCEPT ![d] = left[d] - 1]
    /\ UNCHANGED <<ppc, copy, shut>>
    /\ UNCHANGED <<coreVars, readVars, interrupts>>

\* io::copy reads EOF and returns Ok: the future goes on to the shutdown
PxEof(d) ==
    /\ ppc = "join" /\ copy[d] = "copy" /\ left[d] = 0
    /\ copy' = [copy EXCEPT ![d] = "shutdown"]
    /\ UNCHANGED <<ppc, left, shut>>
    /\ UNCHANGED <<coreVars, readVars, interrupts>>

\* io::copy(..).await? fails on a read or a write: the future ends with Err
PxCopyErr(d) ==
    /\ ppc = "join" /\ copy[d] = "copy"
    /\ copy' = [copy EXCEPT ![d] = "failed"]
    /\ UNCHANGED <<ppc, left, shut>>
    /\ UNCHANGED <<coreVars, readVars, interrupts>>

\* wo.shutdown().await / wi.shutdown().await ends the future
PxShutdown(d) ==
    /\ ppc = "join" /\ copy[d] = "shutdown"
    /\ \E ok \in BOOLEAN :
          /\ copy' = [copy EXCEPT ![d] = IF ok THEN "done" ELSE "failed"]
          /\ shut' = [shut EXCEPT ![d] = ok]
    /\ UNCHANGED <<ppc, left>>
    /\ UNCHANGED <<coreVars, readVars, interrupts>>

\* try_join!(..)?: Err as soon as one future has ended with Err, the other
\* future being dropped where it is; Ok once both have ended with Ok
PxJoin ==
    /\ ppc = "join"
    /\ \/ /\ \E d \in Directions : copy[d] = "failed"
          /\ ppc' = "returned_err"
       \/ /\ \A d \in Directions : copy[d] = "done"
          /\ ppc' = "returned_ok"
    /\ UNCHANGED <<copy, left, shut>>
    /\ UNCHANGED <<coreVars, readVars, interrupts>>

\* ------------------------------------------------------------- read_packet
\* The byte values told apart: three one-byte VarInts and one byte with the
\* continuation bit (value 1, more to follow).
Bytes == {0, 1, 2, 129}

\* What a peer sends on a connection before it closes it.
Streams == UNION {[1..n -> Bytes] : n \in 0..MaxStream}

RECURSIVE VarIntValue(_, _)
VarIntValue(b, i) ==
    IF i = 0 THEN 0 ELSE VarIntValue(b, i - 1) + (b[i] % 128) * 128^(i - 1)

\* types::read_var_int: little-endian base 128, bit 7 is the continuation bit,
\* at most 5 bytes.
read_var_int(b) ==
    LET Ends(i) == i <= Len(b) /\ b[i] < 128 /\ \A j \in 1..(i - 1) : b[j] >= 128
    IN  IF \E i \in 1..5 : Ends(i)
        THEN LET i == CHOOSE i \in 1..5 : Ends(i)
             IN  [err |-> "none", consumed |-> i, value |-> VarIntValue(b, i)]
        ELSE IF Len(b) >= 5
        THEN [err |-> "Overflow", consumed |-> 0, value |-> 0]
        ELSE [err |-> "Incomplete", consumed |-> 0, value |-> 0]

\* RawPacket::decode(&raw): the length, then the packet id as a VarInt
RawPacketDecodes(raw, consumed) ==
    read_var_int(SubSeq(raw, consumed + 1, Len(raw))).err = "none"

\* The first call on a new connection, whose peer is going to send `stream`.
RpStart ==
    /\ rpc = "new"
    /\ \E stream \in Streams : rstream' = stream
    /\ rpc' = "head"
    /\ UNCHANGED <<rbuf, rres, rcause, rconsumed, rlen>>
    /\ UNCHANGED <<coreVars, proxyVars, interrupts>>

\* The next call, on the same buf, after a packet was returned.
RpNext ==
    /\ rpc = "returned" /\ rres = "Some"
    /\ rpc' = "head" /\ rres' = "pending" /\ rcause' = "none"
    /\ UNCHANGED <<rbuf, rstream, rconsumed, rlen>>
    /\ UNCHANGED <<coreVars, proxyVars, interrupts>>

\* Whether the loop at the position still wants bytes:
\* `while buf.len() < 2`, `while buf.len() < consumed + len as usize`.
WantsBytes ==
    \/ rpc = "head" /\ Len(rbuf) < 2
    \/ rpc = "body" /\ Len(rbuf) < rconsumed + rlen

\* stream.read_buf(&mut tmp) delivers bytes: buf.extend(tmp)
RpReadData ==
    /\ WantsBytes
    /\ \E n \in 1..Len(rstream) :
          /\ rbuf' = rbuf \o SubSeq(rstream, 1, n)
          /\ rstream' = SubSeq(rstream, n + 1, Len(rstream))
    /\ rcause' = "data"
    /\ UNCHANGED <<rpc, rres, rconsumed, rlen>>
    /\ UNCHANGED <<coreVars, proxyVars, interrupts>>

\* read_buf returns Ok with nothing read (EOF): `if tmp.is_empty() { return Ok(None) }`
RpReadEof ==
    /\ WantsBytes /\ rstream = <<>>
    /\ rcause' = "eof"
    /\ rres' = "None" /\ rpc' = "returned"
    /\ UNCHANGED <<rbuf, rstream, rconsumed, rlen>>
    /\ UNCHANGED <<coreVars, proxyVars, interrupts>>

\* read_buf returns Err: ConnectionReset gives Ok(None), any other kind Err(())
RpReadErr ==
    /\ WantsBytes
    /\ \E reset \in BOOLEAN :
          /\ rcause' = IF reset THEN "reset" ELSE "error"
          /\ rres' = IF reset THEN "None" ELSE "Err"
    /\ rpc' = "returned"
    /\ UNCHANGED <<rbuf, rstream, rconsumed, rlen>>
    /\ UNCHANGED <<coreVars, proxyVars, interrupts>>

\* let (consumed, len) = match types::read_var_int(&buf) { .. Err(err) => return Err(err) }
RpParseLength ==
    /\ rpc = "head" /\ Len(rbuf) >= 2
    /\ LET r == read_var_int(rbuf)
       IN  IF r.err = "none"
           THEN /\ rconsumed' = r.consumed /\ rlen' = r.value
                /\ rpc' = "body"
                /\ UNCHANGED rres
           ELSE /\ rres' = "Err" /\ rpc' = "returned"
                /\ UNCHANGED <<rconsumed, rlen>>
    /\ UNCHANGED <<rbuf, rstream, rcause>>
    /\ UNCHANGED <<coreVars, proxyVars, interrupts>>

\* let raw = buf.split_to(consumed + len); RawPacket::decode(&raw)?; Ok(Some(..))
RpSplit ==
    /\ rpc = "body" /\ Len(rbuf) >= rconsumed + rlen
    /\ rres' = IF RawPacketDecodes(SubSeq(rbuf, 1, rconsumed + rlen), rconsumed)
               THEN "Some" ELSE "Err"
    /\ rbuf' = SubSeq(rbuf, rconsumed + rlen + 1, Len(rbuf))
    /\ rpc' = "returned"
    /\ rconsumed' = 0 /\ rlen' = 0
    /\ UNCHANGED <<rstream, rcause>>
    /\ UNCHANGED <<coreVars, proxyVars, interrupts>>

\* ------------------------------------------------------------- status hijack session
LOGIN_PACKET_ID_LOGIN_START == 0
STATUS_PACKET_ID_STATUS == 0
STATUS_PACKET_ID_PING == 1
PacketIds == {STATUS_PACKET_ID_STATUS, STATUS_PACKET_ID_PING, 2}
NextStates == {1, 2, 3}

\* ClientState::from_id
from_id(n) == IF n = 1 THEN Some("Status") ELSE IF n = 2 THEN Some("Login") ELSE None

\* The packet a pass of the serve loop is about, named by the session state
\* at its receipt and its id (history; the code tests state and id per branch).
PacketKind(st, id) ==
    IF st = "Login" /\ id = LOGIN_PACKET_ID_LOGIN_START THEN "LoginStart"
    ELSE IF st = "Handshake" /\ id = STATUS_PACKET_ID_STATUS THEN "Handshake"
    ELSE IF st = "Status" /\ id = STATUS_PACKET_ID_STATUS THEN "StatusRequest"
    ELSE IF st = "Status" /\ id = STATUS_PACKET_ID_PING THEN "Ping"
    ELSE "other"

\* The Login Start test without the client state: any packet with id 0.
IsLoginStart_AnyState(st, id) == id = LOGIN_PACKET_ID_LOGIN_START

\* `client.state() == ClientState::Login && packet.id == LOGIN_PACKET_ID_LOGIN_START`,
\* the first test of the serve loop on a received packet.
IsLoginStart(st, id) == st = "Login" /\ id = LOGIN_PACKET_ID_LOGIN_START

\* The handshake branch applied to an id-0 packet in whatever state.
NextClientState_AnyState(st, id, next_state) ==
    IF id = STATUS_PACKET_ID_STATUS /\ IsSome(from_id(next_state))
    THEN Unwrap(from_id(next_state))
    ELSE st

\* The `Hijack handshake` branch: the client state after it, for a packet
\* that decodes and names a known next state.
NextClientState(st, id, next_state) ==
    IF st = "Handshake" /\ id = STATUS_PACKET_ID_STATUS
    THEN Unwrap(from_id(next_state))
    ELSE st

PROTO_DEFAULT_VERSION == "1.16.5"
PROTO_DEFAULT_PROTOCOL == 754

\* The defaults whatever the last known status (as main.rs status_server answers).
VersionAndMax_Defaults(st) ==
    [version |-> [name |-> PROTO_DEFAULT_VERSION, protocol |-> PROTO_DEFAULT_PROTOCOL],
     max |-> 0]

\* `let (version, max) = match server.clone_status() { .. }`
VersionAndMax(st) ==
    IF IsSome(st)
    THEN [version |-> Unwrap(st).version, max |-> Unwrap(st).max]
    ELSE [version |-> [name |-> PROTO_DEFAULT_VERSION, protocol |-> PROTO_DEFAULT_PROTOCOL],
          max |-> 0]

\* `let description = if server.starting() { motd_starting } else { motd_sleeping }`
Description(is_starting) == IF is_starting THEN "motd_starting" ELSE "motd_sleeping"

\* The StatusResponse built from the cloned (version, max) and the starting flag.
BuildStatusResponse(vm, is_starting) ==
    [kind |-> "StatusResponse",
     version |-> vm.version,
     description |-> Description(is_starting),
     online |-> 0, max |-> vm.max, sample |-> <<>>]

LoginDisconnect == [kind |-> "LoginDisconnect", reason |-> "login_starting"]
PingEcho == [kind |-> "Ping"]

\* read_packet returns Ok(None) or Err: break, then writer.shutdown()
ServeEof(s) ==
    /\ alive /\ spc[s] = "read"
    /\ spc' = [spc EXCEPT ![s] = "closed"]
    /\ UNCHANGED <<serverVars, envVars, cstate, ctlVars, monVars, killVars, wpc, raisedAt, ioVars,
                   proxyVars, readVars, interrupts>>

\* One pass of the serve loop over a received packet, up to its first access
\* to the ServerState: start_server for Login Start, clone_status for a
\* status request.  "closed" is the end through break and writer.shutdown(),
\* "failed" the end through `?` or the panic, without the shutdown.
ServePacket(s) ==
    /\ alive /\ spc[s] = "read"
    /\ \E id \in PacketIds, next_state \in NextStates, decoded \in BOOLEAN, written \in BOOLEAN :
          /\ rx' = [rx EXCEPT ![s] = PacketKind(cstate[s], id)]
          /\ IF IsLoginStart(cstate[s], id)
             THEN \* LoginDisconnect is written, then start_server is called
                  /\ tx' = [tx EXCEPT ![s] = IF written THEN Some(LoginDisconnect) ELSE None]
                  /\ spc' = [spc EXCEPT ![s] = IF written THEN "start_check" ELSE "failed"]
                  /\ UNCHANGED <<cstate, cloned>>
             ELSE IF cstate[s] = "Handshake" /\ id = STATUS_PACKET_ID_STATUS /\ ~decoded
             THEN \* Handshake::decode fails: break
                  /\ tx' = [tx EXCEPT ![s] = None]
                  /\ spc' = [spc EXCEPT ![s] = "closed"]
                  /\ UNCHANGED <<cstate, cloned>>
             ELSE IF cstate[s] = "Handshake" /\ id = STATUS_PACKET_ID_STATUS
                     /\ from_id(next_state) = None
             THEN \* .expect("unknown next client state") panics the task
                  /\ tx' = [tx EXCEPT ![s] = None]
                  /\ spc' = [spc EXCEPT ![s] = "failed"]
                  /\ UNCHANGED <<cstate, cloned>>
             ELSE \* after the (possible) set_state the same packet goes on
                  \* to the status, ping and unhandled branches
                  /\ cstate' = [cstate EXCEPT ![s] = NextClientState(cstate[s], id, next_state)]
                  /\ IF cstate'[s] = "Status" /\ id = STATUS_PACKET_ID_STATUS
                     THEN /\ cloned' = [cloned EXCEPT ![s] = Some(VersionAndMax(status))]
                          /\ tx' = [tx EXCEPT ![s] = None]
                          /\ spc' = [spc EXCEPT ![s] = "status_desc"]
                     ELSE IF cstate'[s] = "Status" /\ id = STATUS_PACKET_ID_PING
                     THEN /\ tx' = [tx EXCEPT ![s] = IF written THEN Some(PingEcho) ELSE None]
                          /\ spc' = [spc EXCEPT ![s] = IF written THEN "read" ELSE "failed"]
                          /\ UNCHANGED cloned
                     ELSE \* unhandled packet: logged, the loop goes on
                          /\ tx' = [tx EXCEPT ![s] = None]
                          /\ UNCHANGED <<spc, cloned>>
    /\ UNCHANGED <<serverVars, envVars, ctlVars, monVars, killVars, wpc, raisedAt, proxyVars,
                   readVars, interrupts>>

\* The rest of the status branch: server.starting(), build and write the
\* StatusResponse, continue.
ServeStatusResponse(s) ==
    /\ alive /\ spc[s] = "status_desc"
    /\ \E written \in BOOLEAN :
          /\ tx' = [tx EXCEPT ![s] =
                       IF written THEN Some(BuildStatusResponse(Unwrap(cloned[s]), starting))
                       ELSE None]
          /\ spc' = [spc EXCEPT ![s] = IF written THEN "read" ELSE "failed"]
    /\ cloned' = [cloned EXCEPT ![s] = None]
    /\ UNCHANGED <<serverVars, envVars, cstate, rx, ctlVars, monVars, killVars, wpc, raisedAt,
                   proxyVars, readVars, interrupts>>

\* ------------------------------------------------------------- start_server
\* if server.starting() { return; }
StartCheck(s) ==
    /\ alive /\ spc[s] = "start_check"
    /\ spc' = [spc EXCEPT ![s] = IF starting THEN "closed" ELSE "start_set"]
    /\ UNCHANGED <<serverVars, envVars, cstate, ctlVars, monVars, killVars, wpc, raisedAt, ioVars,
                   proxyVars, readVars, interrupts>>

\* server.set_starting(true)
StartSetStarting(s) ==
    /\ alive /\ spc[s] = "start_set"
    /\ starting' = TRUE
    /\ spc' = [spc EXCEPT ![s] = "start_active"]
    /\ UNCHANGED <<online, stopping, pid, status, last_active, keep_online_until,
                   envVars, cstate, ctlVars, monVars, killVars, wpc, raisedAt, ioVars, proxyVars,
                   readVars, interrupts>>

\* server.update_last_active_time()
StartLastActive(s) ==
    /\ alive /\ spc[s] = "start_active"
    /\ last_active' = Some(now)
    /\ spc' = [spc EXCEPT ![s] = "start_spawn"]
    /\ UNCHANGED <<online, starting, stopping, pid, status, keep_online_until,
                   envVars, cstate, ctlVars, monVars, killVars, wpc, raisedAt, ioVars, proxyVars,
                   readVars, interrupts>>

\* The spawn after which the serve loop reads on instead of breaking.
StartSpawn_NoBreak(s) ==
    /\ alive /\ spc[s] = "start_spawn"
    /\ cpc' = [cpc EXCEPT ![s] = "spawn"]
    /\ spc' = [spc EXCEPT ![s] = "read"]
    /\ UNCHANGED <<serverVars, envVars, cstate, child, monVars, killVars, wpc, raisedAt, ioVars,
                   proxyVars, readVars, interrupts>>

\* tokio::spawn(invoke_server_command(config, server)): the session's controller task;
\* start_server returns, the serve loop breaks and the write side is shut down
StartSpawn(s) ==
    /\ alive /\ spc[s] = "start_spawn"
    /\ cpc' = [cpc EXCEPT ![s] = "spawn"]
    /\ spc' = [spc EXCEPT ![s] = "closed"]
    /\ UNCHANGED <<serverVars, envVars, cstate, child, monVars, killVars, wpc, raisedAt, ioVars,
                   proxyVars, readVars, interrupts>>

\* ------------------------------------------------------------- specification
\* The probe and the update_status call of one monitor round.
UpdateStatus ==
    \/ MonProbe \/ UpdLoadStopping \/ UpdLoadOnline \/ UpdSetOnline
    \/ UpdJustOnlineActive \/ UpdJustOnlineKeep \/ UpdPlayers \/ UpdSetStatus

\* The should_sleep call of one monitor round.
ShouldSleep ==
    \/ SleepKeep \/ SleepOnline \/ SleepStarting \/ SleepPlayers \/ SleepIdle

Monitor == UpdateStatus \/ ShouldSleep \/ MonKillReturn

KillServer(k) ==
    \/ KillHasProcess(k) \/ KillRcon(k) \/ RconSetOnline(k) \/ RconClearKeep(k)
    \/ KillSignal(k) \/ SigSetOnline(k) \/ SigClearKeep(k) \/ KillSetStopping(k)

Controller(c) ==
    \/ CtlSpawn(c) \/ CtlSetPid(c) \/ ChildExit(c) \/ CtlWaitOk(c) \/ CtlWaitErr(c)
    \/ ReapOrphan(c) \/ CtlResetPid(c) \/ CtlResetOnline(c) \/ CtlResetStarting(c)
    \/ CtlResetStopping(c)

\* A connection handled by the status hijack handler.
Hijack(s) ==
    \/ ServeEof(s) \/ ServePacket(s) \/ ServeStatusResponse(s)
    \/ StartCheck(s) \/ StartSetStarting(s) \/ StartLastActive(s) \/ StartSpawn(s)

\* All tasks; the connections after the first arrive while the server is
\* online, and the operator interrupts once.
Next ==
    \/ Tick
    \/ Monitor
    \/ (interrupts = 0 /\ Interrupt) \/ WatcherReturn
    \/ \E k \in Killers : KillServer(k)
    \/ \E c \in Sessions : Controller(c)
    \/ \E s \in Sessions : (s = 1 \/ online) /\ Accept(s)
    \/ \E s \in Sessions : Hijack(s)
    \/ \E s \in Sessions : ProxyDone(s)

Spec == Init /\ [][Next]_vars

\* Every connection and every controller, before the first monitor probe and
\* the first interrupt.
NextStart ==
    \/ Tick
    \/ \E c \in Sessions : Controller(c)
    \/ \E s \in Sessions : Accept(s)
    \/ \E s \in Sessions : Hijack(s)

SpecStart == Init /\ [][NextStart]_vars

\* One connection, the backend it starts, the monitor and the interrupt
\* watcher with one interrupt.
NextOne ==
    \/ Tick
    \/ Monitor
    \/ (interrupts = 0 /\ Interrupt) \/ WatcherReturn
    \/ \E k \in Killers : KillServer(k)
    \/ Controller(1)
    \/ Accept(1)
    \/ Hijack(1)

SpecOne == Init /\ [][NextOne]_vars

\* Within one instant (nothing falls idle): connection 1 with the backend it
\* starts and the monitor, and connection 2 arriving at any time; accepted
\* while offline it is a server-list ping (it never enters Login), accepted
\* while online it is proxied.
NextClients ==
    \/ UpdateStatus \/ ShouldSleep
    \/ Controller(1)
    \/ Accept(1) \/ Hijack(1)
    \/ Accept(2)
    \/ Hijack(2) /\ cstate'[2] # "Login"
    \/ ProxyDone(2)

SpecClients == Init /\ [][NextClients]_vars

\* One connection, the backend it starts and the interrupt watcher, with any
\* number of interrupts; no monitor.
NextStop ==
    \/ Interrupt \/ WatcherReturn
    \/ KillServer("watcher")
    \/ Controller(1)
    \/ Accept(1) \/ Hijack(1)

SpecStop == Init /\ [][NextStop]_vars

\* One call of proxy for one accepted connection.
NextProxy ==
    \/ PxConnect
    \/ \E d \in Directions : PxCopy(d) \/ PxEof(d) \/ PxCopyErr(d) \/ PxShutdown(d)
    \/ PxJoin

SpecProxy == Init /\ [][NextProxy]_vars

\* The read_packet calls of one connection.
NextRead ==
    \/ RpStart \/ RpNext
    \/ RpReadData \/ RpReadEof \/ RpReadErr
    \/ RpParseLength \/ RpSplit

SpecRead == Init /\ [][NextRead]_vars

\* ------------------------------------------------------------- claims
\* A session holds the start from passing the `if server.starting()` test of
\* start_server until its controller has cleared `starting` again.
HoldsStart(s) ==
    \/ spc[s] \in {"start_set", "start_active", "start_spawn"}
    \/ cpc[s] \in {"spawn", "spawn_failed", "set_pid", "wait", "wait_failed",
                   "reset_pid", "reset_online", "reset_starting"}

\* C1: when sessions receive Login Start while the server is offline and not
\* starting, however their start_server calls interleave, one of them alone
\* is admitted and spawns the controller.
C1_SpawnedOnce == Cardinality({s \in Sessions : HoldsStart(s)}) <= 1

\* C2: in every reachable state in which the monitor calls it, should_sleep
\* returns false whenever starting is true, or online is false, or the last
\* known players.online is above 0, or keep_online_until is later than now.
C2_NoSleepWhen ==
    (/\ mpc = "s_keep"
     /\ \/ starting
        \/ ~online
        \/ PlayersOnline
        \/ (IsSome(keep_online_until) /\ Unwrap(keep_online_until) > now))
    => ~should_sleep

\* C3: when the monitor calls it with online true, starting false, last known players.online 0,
\* keep_online_until absent or in the past and last_active at least
\* sleep_after ago, should_sleep returns true (and the monitor then calls
\* kill_server).
C3_SleepWhenIdle ==
    (/\ mpc = "s_keep"
     /\ online /\ ~starting
     /\ IsSome(status) /\ Unwrap(status).online = 0
     /\ (keep_online_until = None \/ Unwrap(keep_online_until) < now)
     /\ IsSome(last_active) /\ now - Unwrap(last_active) >= config.sleep_after)
    => should_sleep

\* C4: when update_status has returned, stopping implies not online, whatever
\* the probe result and however the call interleaved with kill_server.
C4_StoppingNotOnline == (mpc = "s_keep") => (stopping => ~online)

\* C5: every change of online from false to true continues into the steps
\* that set last_active to now and keep_online_until to now + min_online_time.
C5_RaiseRefreshes == [][(~online /\ online') => mpc' = "u_last_active"]_vars

\* C6: once status holds a value it never becomes absent again, and it only
\* changes by update_status storing the status of its successful probe.
C6_StatusSticky ==
    [][/\ IsSome(status) => IsSome(status')
       /\ status' # status =>
             (mpc = "u_status" /\ IsSome(m_status) /\ status' = m_status)]_vars

\* C6 witness: a status is still known after the backend was started, probed
\* and has exited, the controller having reset the flags.
C6_Witness == IsSome(status) /\ cpc[1] = "done" /\ ~online /\ ~starting

\* A spawned child that has not yet been reaped.
ChildUnreaped == \E c \in Sessions : child[c] \in {"running", "exited"}

\* No controller is between spawning its child and recording the pid, or
\* between reaping the child and clearing the pid.
ControllersSettled ==
    \A c \in Sessions : cpc[c] \in {"none", "spawn", "spawn_failed", "wait", "wait_failed",
                                    "reset_online", "reset_starting", "reset_stopping", "done"}

\* C7: pid is present if and only if a spawned child exists that has not yet
\* been reaped, on every path of the controller, the wait error included.
C7_PidIffChild == ControllersSettled => (IsSome(pid) <=> ChildUnreaped)

\* C8: when the controller task exits because spawning failed, starting is
\* false again.
C8_SpawnFailureClears ==
    [][\A c \in Sessions :
          (cpc[c] = "spawn" /\ cpc'[c] = "spawn_failed") => ~starting']_vars

\* C9: from the instant update_status raises online from false to true, with
\* min_online_time > 0, until min_online_time has passed, no should_sleep
\* call returns true.
C9_MinOnlineGuard == [][(mpc = "s_idle" /\ mpc' = "kill") => raisedAt = None]_vars

\* C10: kill_server called while pid is absent returns false and leaves
\* online, starting, stopping, status, last_active and keep_online_until
\* unchanged.
C10_KillNoPid ==
    [][\A k \in Killers :
          (kpc[k] = "has" /\ pid = None /\ kpc'[k] # "has")
          => /\ kpc'[k] = "ret" /\ kret'[k] = FALSE
             /\ UNCHANGED <<online, starting, stopping, status, last_active,
                            keep_online_until>>]_vars

\* C10 witness: a kill_server call has returned false on finding no pid,
\* while the server was starting.
C10_Witness ==
    \E k \in Killers :
       kpc[k] = "ret" /\ ~has_process[k] /\ ~kret[k] /\ pid = None /\ starting

\* C11: whenever kill_server returns true, at its return stopping is true,
\* online is false and keep_online_until is absent; a call that returns false
\* has not changed stopping.
C11_KillPostcondition ==
    [][\A k \in Killers :
          /\ (kpc[k] # "ret" /\ kpc'[k] = "ret" /\ kret'[k])
             => (stopping' /\ ~online' /\ keep_online_until' = None)
          /\ (kpc'[k] # kpc[k] /\ stopping' # stopping)
             => (kpc'[k] = "ret" /\ kret'[k])]_vars

\* C12: when stopping through RCON fails (RCON disabled, connect failure, or
\* the stop command failing), kill_server goes on to the signal-based stop.
\* KillRcon sends the first two to "sig"; this is the stop command failing.
C12_RconFailureFallsThrough ==
    [][\A k \in Killers :
          (kpc[k] = "rcon_stop_failed" /\ kpc'[k] # kpc[k]) => kpc'[k] = "sig"]_vars

\* C13: the status hijack handler writes nothing to the client in response to
\* a Handshake packet (so the one StatusResponse of the sequence Handshake,
\* Status Request is written after the Status Request is received).
C13_NoWriteOnHandshake == \A s \in Sessions : rx[s] = "Handshake" => tx[s] = None

\* C14: a client session starts in state Handshake and changes state at most
\* once, only on a packet with id 0 received in state Handshake; once in
\* Status or Login the state never changes again.
C14_StateChangesOnce ==
    /\ \A s \in Sessions : cstate[s] = "Handshake"
    /\ [][\A s \in Sessions :
             cstate'[s] # cstate[s] => (cstate[s] = "Handshake" /\ rx'[s] = "Handshake")]_vars

\* C14 witness: one session is in Login and has received Login Start, the
\* other is in Status and has gone on to receive a Ping.
C14_Witness ==
    /\ cstate[1] = "Login" /\ rx[1] = "LoginStart"
    /\ cstate[2] = "Status" /\ rx[2] = "Ping" /\ tx[2] = Some(PingEcho)

\* The positions of a session inside start_server.
StartPositions == {"start_check", "start_set", "start_active", "start_spawn"}

C16_StatusResponseContent ==
    [][\A s \in Sessions :
          /\ (spc[s] = "read" /\ spc'[s] = "status_desc")
             => cloned'[s] =
                   IF status # None
                   THEN <<[version |-> status[1].version, max |-> status[1].max]>>
                   ELSE <<[version |-> [name |-> "1.16.5", protocol |-> 754], max |-> 0]>>
          /\ (spc[s] = "status_desc" /\ tx'[s] # None)
             => /\ tx'[s][1].kind = "StatusResponse"
                /\ tx'[s][1].online = 0
                /\ tx'[s][1].sample = <<>>
                /\ tx'[s][1].description = (IF starting THEN "motd_starting" ELSE "motd_sleeping")
                /\ tx'[s][1].version = cloned[s][1].version
                /\ tx'[s][1].max = cloned[s][1].max]_vars

\* C16 witness: a StatusResponse written while the backend was starting and a
\* status had been probed carries that status's version and max.
C16_Witness ==
    /\ tx[2] # None
    /\ tx[2][1].kind = "StatusResponse"
    /\ tx[2][1].version.name = "1.17.1" /\ tx[2][1].max = 20
    /\ tx[2][1].description = "motd_starting"

\* The positions of a connection inside the status hijack handler.
HijackPositions == {"read", "status_desc"} \cup StartPositions

\* C17: for each accepted connection the dispatcher reads online once: a
\* connection accepted while online is false is handled only by the status
\* hijack handler, one accepted while online is true only by the proxy, even
\* if online changes afterwards; and whatever has happened to the handlers, a
\* new connection is still accepted.
C17_DispatchOnce ==
    /\ [](\A s \in Sessions : (alive /\ spc[s] = "new") => ENABLED Accept(s))
    /\ [][\A s \in Sessions :
             /\ (spc[s] = "new" /\ spc'[s] # "new")
                => spc'[s] = (IF online THEN "proxy" ELSE "read")
             /\ spc[s] \in HijackPositions
                => spc'[s] \in HijackPositions \cup {"closed", "failed"}
             /\ spc[s] = "proxy" => spc'[s] \in {"proxy", "closed"}]_vars

\* C17 witness: connection 2 was accepted while online and is still with the
\* proxy after online has become false; connection 1 was hijacked.
C17_Witness == spc[2] = "proxy" /\ ~online /\ spc[1] = "closed" /\ rx[1] = "LoginStart"

\* C18: in the proxy, a copy direction that reached EOF has half-closed the
\* write side it was copying into, and proxy returns only after both
\* directions have completed, also when one direction ends with an error.
C18_ProxyJoinsBoth ==
    /\ \A d \in Directions : copy[d] = "done" => shut[d]
    /\ ppc \in {"returned_ok", "returned_err"}
       => \A d \in Directions : copy[d] \in {"idle", "done", "failed"}

\* C19: read_packet returns None if and only if EOF is observed before any
\* byte of a new packet has arrived or the peer reset the connection; EOF
\* after part of a packet has been buffered is a framing error, not None.
C19_NoneOnlyBetweenPackets ==
    rpc = "returned" =>
       /\ rres = "None" => rcause \in {"eof", "reset"}
       /\ rcause = "reset" => rres = "None"
       /\ rcause = "eof" => (rres = "None" <=> rbuf = <<>>)
       /\ (rcause = "eof" /\ rbuf # <<>>) => rres = "Err"

\* C20: on the first interrupt the watcher calls kill_server and exits the
\* process at once if it returned false; on a second interrupt the process
\* exits unconditionally, whether or not a backend child still exists.
C20_SecondInterruptExits ==
    [][/\ interrupts' # interrupts => kpc'["watcher"] = "has"
       /\ (wpc = "kill" /\ wpc' = "wait")
          => IF interrupts = 1 THEN alive' = kret["watcher"] ELSE ~alive']_vars

\* Every backend child that was spawned has exited, and every controller
\* that waited for one has returned.
BackendGone ==
    /\ \E c \in Sessions : child[c] \in {"exited", "reaped"}
    /\ \A c \in Sessions : /\ child[c] # "running"
                           /\ cpc[c] \in {"none", "wait_failed", "done"}

\* No session is inside start_server past its set_starting(true).
NoStartInProgress == \A s \in Sessions : spc[s] \notin {"start_active", "start_spawn"}

\* C21: once the backend child has exited and its controller has returned,
\* pid is absent and online, starting and stopping are false, and the next
\* Login Start handled by a hijack session passes the test of start_server,
\* sets starting and spawns a new controller.
C21_WakeAfterExit ==
    /\ []((BackendGone /\ NoStartInProgress)
             => (pid = None /\ ~online /\ ~starting /\ ~stopping))
    /\ [][\A s \in Sessions :
             (BackendGone /\ NoStartInProgress /\ spc[s] = "start_check"
              /\ spc'[s] # "start_check") => spc'[s] = "start_set"]_vars

\* C22: a hijack session enters start_server only on a packet with id 0
\* received in state Login; starting is set and a controller is spawned only
\* by a session that received such a packet, never by a session in state
\* Handshake or Status, whatever packets it has received.
C22_StartOnlyOnLoginStart ==
    /\ [](\A s \in Sessions :
             cstate[s] \in {"Handshake", "Status"}
                => (spc[s] \notin StartPositions /\ cpc[s] = "none"))
    /\ [][/\ \A s \in Sessions :
                /\ (spc'[s] = "start_check" /\ spc[s] # "start_check")
                   => (cstate[s] = "Login" /\ rx'[s] = "LoginStart")
                /\ (cpc[s] = "none" /\ cpc'[s] # "none")
                   => (cstate[s] = "Login" /\ rx[s] = "LoginStart")
          /\ (~starting /\ starting')
             => \E s \in Sessions :
                   /\ spc[s] = "start_set" /\ spc'[s] # "start_set"
                   /\ cstate[s] = "Login" /\ rx[s] = "LoginStart"]_vars

\* C22 witness: connection 2 has sent a handshake, a status request and a
\* ping and spawned nothing; connection 1, in state Login, has sent Login
\* Start, starting is set and its controller is spawned.
C22_Witness ==
    /\ cstate[2] = "Status" /\ rx[2] = "Ping" /\ tx[2] = Some(PingEcho) /\ cpc[2] = "none"
    /\ cstate[1] = "Login" /\ rx[1] = "LoginStart" /\ starting /\ cpc[1] = "spawn"

\* The kill_server caller holding the pid guard of stop_server_signal.
HoldsPid(k) == kpc[k] \in {"sig_online", "sig_keep"}

\* The positions at which the monitor's next step locks last_active,
\* keep_online_until or status (update_status, should_sleep).
MonitorLocks == {"u_last_active", "u_keep_online", "u_players", "u_status",
                 "s_keep", "s_players", "s_idle"}

\* C23: the tasks sharing ServerState never deadlock on the guarded fields.
\* The pid guard is the only one held from one step to the next, by one
\* kill_server caller at a time, inside stop_server_signal; its holder is
\* never blocked (the only lock it takes while holding pid is
\* keep_online_until, which nobody holds), so every task waiting for pid
\* proceeds once the guard is dropped, and no task ever waits for status,
\* last_active or keep_online_until.
C23_NoLockDeadlock ==
    /\ [](Cardinality({k \in Killers : HoldsPid(k)}) <= 1)
    /\ [](alive =>
            /\ \A k \in Killers :
                  /\ HoldsPid(k) => ENABLED (SigSetOnline(k) \/ SigClearKeep(k))
                  /\ kpc[k] = "rcon_keep" => ENABLED RconClearKeep(k)
                  /\ (kpc[k] \in {"has", "sig"} /\ ~PidLocked)
                     => ENABLED (KillHasProcess(k) \/ KillSignal(k))
            /\ \A c \in Sessions :
                  (cpc[c] \in {"set_pid", "reset_pid"} /\ ~PidLocked)
                     => ENABLED (CtlSetPid(c) \/ CtlResetPid(c))
            /\ mpc \in MonitorLocks => ENABLED (UpdateStatus \/ ShouldSleep)
            /\ \A s \in Sessions :
                  spc[s] \in {"read", "start_active"}
                     => ENABLED (ServePacket(s) \/ StartLastActive(s)))
    /\ [][PidLocked => pid' = pid]_vars

\* C23 witness: the watcher's kill_server holds the pid guard and is about
\* to lock keep_online_until, while the monitor's kill_server and the
\* controller's set_pid(None) wait for the pid lock.
C23_Witness ==
    /\ kpc["watcher"] = "sig_keep" /\ kpc["monitor"] \in {"has", "sig"}
    /\ cpc[1] = "reset_pid"

====
